---------------------------- MODULE Spec2Model ----------------------------
(***************************************************************************)
(* Model of latlon_to_region (src/src/latlon_to_region/latlon_region.py):  *)
(* the province catalog built by parseLonghurstXML, the polygon index      *)
(* built by provinces_make_tree, and find_region with its two matching     *)
(* strategies (_find_region_list, _find_region_tree).                      *)
(*                                                                         *)
(* Coordinates are integers of a small grid (the code's floats are only    *)
(* compared, never rounded).  A Python dict is a sequence of <<key,        *)
(* value>> pairs in insertion order.  None is the empty tuple <<>> and a   *)
(* present value v is <<v>>.  Python's 0-based positions i are the         *)
(* 1-based positions i + 1 here.                                           *)
(***************************************************************************)
EXTENDS Integers, Sequences, FiniteSets, TLC

\* Longest latitude / longitude list a caller passes.
MaxBatch == 2
\* Largest latitude / longitude value a caller passes (the smallest is 0).
MaxCoord == 2

None == <<>>
Some(v) == <<v>>

Min(a, b) == IF a <= b THEN a ELSE b
Max(a, b) == IF a >= b THEN a ELSE b

(***************************************************************************)
(* Planar geometry: shapely.Point, shapely.Polygon and the two predicates  *)
(* the matcher calls on them.  A point is <<x, y>>, a ring a sequence of   *)
(* points, a polygon [shell |-> ring, holes |-> sequence of rings].        *)
(***************************************************************************)

\* shapely.Point(a, b): the first argument is x, the second is y.
Point(a, b) == <<a, b>>

\* shapely.Polygon(shell=..., holes=...)
Polygon(shell, holes) == [shell |-> shell, holes |-> holes]

\* Twice the signed area of the triangle a, b, p: 0 when p is on the line a-b.
Cross(a, b, p) == (b[1] - a[1]) * (p[2] - a[2]) - (b[2] - a[2]) * (p[1] - a[1])

OnSegment(p, a, b) ==
    /\ Cross(a, b, p) = 0
    /\ Min(a[1], b[1]) <= p[1] /\ p[1] <= Max(a[1], b[1])
    /\ Min(a[2], b[2]) <= p[2] /\ p[2] <= Max(a[2], b[2])

\* A ring is closed: its last vertex connects to its first.
RingNext(ring, i) == IF i = Len(ring) THEN ring[1] ELSE ring[i + 1]

OnRing(p, ring) ==
    \E i \in 1..Len(ring) : OnSegment(p, ring[i], RingNext(ring, i))

\* Edge i crosses the ray from p towards +x (crossing-number rule).
EdgeCrosses(p, a, b) ==
    \/ a[2] <= p[2] /\ p[2] < b[2] /\ Cross(a, b, p) > 0
    \/ b[2] <= p[2] /\ p[2] < a[2] /\ Cross(a, b, p) < 0

\* p is strictly inside the ring.
InsideRing(p, ring) ==
    /\ ~OnRing(p, ring)
    /\ Cardinality({i \in 1..Len(ring) :
                       EdgeCrosses(p, ring[i], RingNext(ring, i))}) % 2 = 1

\* p is in the interior of the polygon: inside the shell, in no hole's closure.
InInterior(p, poly) ==
    /\ InsideRing(p, poly.shell)
    /\ \A h \in 1..Len(poly.holes) :
           ~InsideRing(p, poly.holes[h]) /\ ~OnRing(p, poly.holes[h])

\* p is on the boundary of the polygon: on the shell or on a hole's ring.
OnBoundary(p, poly) ==
    \/ OnRing(p, poly.shell)
    \/ \E h \in 1..Len(poly.holes) : OnRing(p, poly.holes[h])

(***************************************************************************)
(* The geometry definition (longhurst_definition/longhurst.xml, decoded):  *)
(* a sequence of province nodes, each with its fid, provcode, provdescr,   *)
(* the two corners of its gml:Box and the polygons of its MultiPolygon.    *)
(***************************************************************************)

\* The coordinate text of an axis-aligned rectangle, closed as GML rings are.
RectText(x0, y0, x1, y1) ==
    << <<x0, y0>>, <<x0, y1>>, <<x1, y1>>, <<x1, y0>>, <<x0, y0>> >>

PolygonNode(outer, inner) == [outerBoundaryIs |-> outer, innerBoundaryIs |-> inner]

LonghurstNode(fid, code, descr, box, polys) ==
    [fid |-> fid, provcode |-> code, provdescr |-> descr,
     boundedBy |-> box, the_geom |-> polys]

\* Two provinces with disjoint interiors that share the edge x = 1.
DefAdjacent ==
    << LonghurstNode("f1", "AAAA", "Province A", << <<-1, -1>>, <<1, 2>> >>,
                     << PolygonNode(RectText(-1, -1, 1, 2), <<>>) >>),
       LonghurstNode("f2", "BBBB", "Province B", << <<1, -1>>, <<3, 1>> >>,
                     << PolygonNode(RectText(1, -1, 3, 1), <<>>) >>) >>

\* Two provinces whose interiors overlap around (0, 0).
DefOverlap ==
    << LonghurstNode("f1", "AAAA", "Province A", << <<-1, -1>>, <<1, 3>> >>,
                     << PolygonNode(RectText(-1, -1, 1, 3), <<>>) >>),
       LonghurstNode("f2", "BBBB", "Province B", << <<-1, -1>>, <<3, 1>> >>,
                     << PolygonNode(RectText(-1, -1, 3, 1), <<>>) >>) >>

\* A province of two polygons that overlap each other around (0, 0), and a
\* triangular province that does not fill its bounding box.
DefMulti ==
    << LonghurstNode("f1", "PPPP", "Province P", << <<-1, -1>>, <<1, 3>> >>,
                     << PolygonNode(RectText(-1, -1, 1, 1), <<>>),
                        PolygonNode(RectText(-1, -1, 1, 3), <<>>) >>),
       LonghurstNode("f2", "QQQQ", "Province Q", << <<1, -1>>, <<3, 3>> >>,
                     << PolygonNode(<< <<1, -1>>, <<3, -1>>, <<3, 3>>, <<1, -1>> >>,
                                    <<>>) >>) >>

\* A province with a diamond-shaped hole, and an island province filling the hole.
DefIsland ==
    << LonghurstNode("f1", "SEAS", "Province Sea", << <<-1, -1>>, <<3, 3>> >>,
                     << PolygonNode(RectText(-1, -1, 3, 3),
                                    << << <<1, 0>>, <<2, 1>>, <<1, 2>>, <<0, 1>>,
                                          <<1, 0>> >> >>) >>),
       LonghurstNode("f2", "ISLE", "Province Isle", << <<0, 0>>, <<2, 2>> >>,
                     << PolygonNode(<< <<1, 0>>, <<2, 1>>, <<1, 2>>, <<0, 1>>,
                                       <<1, 0>> >>, <<>>) >>) >>

Definitions == {DefAdjacent, DefOverlap, DefMulti, DefIsland}

\* The most inner boundaries a polygon of the definitions below has.
MaxHoles == 2

\* A diamond-shaped ring around centre c.
DiamondText(c) ==
    << <<c[1], c[2] - 1>>, <<c[1] + 1, c[2]>>, <<c[1], c[2] + 1>>,
       <<c[1] - 1, c[2]>>, <<c[1], c[2] - 1>> >>

\* Where the inner boundaries of a polygon may lie: rings around these
\* centres have disjoint interiors and lie within the shell below.
HoleCentres == << <<0, 0>>, <<2, 2>>, <<0, 2>>, <<2, 0>> >>

\* The lists of inner boundaries: up to MaxHoles rings around distinct centres.
InnerBoundaryLists ==
    UNION {{[h \in 1..n |-> DiamondText(HoleCentres[pick[h]])] :
               pick \in {f \in [1..n -> 1..Len(HoleCentres)] :
                            \A a, b \in 1..n : a # b => f[a] # f[b]}} :
           n \in 0..MaxHoles}

\* One province of one polygon, a square with that list of inner boundaries.
DefHoles(inner) ==
    << LonghurstNode("f1", "SEAS", "Province Sea", << <<-2, -2>>, <<4, 4>> >>,
                     << PolygonNode(RectText(-2, -2, 4, 4), inner) >>) >>

HoleDefinitions == {DefHoles(inner) : inner \in InnerBoundaryLists}

(***************************************************************************)
(* Python dict and list helpers.                                           *)
(***************************************************************************)

\* dict[key], for a key that is present
DictGet(d, key) == d[CHOOSE i \in 1..Len(d) : d[i][1] = key][2]

\* list(dict.values())
DictValues(d) == [i \in 1..Len(d) |-> d[i][2]]

\* dict[key] = value: a present key keeps its position, a new key comes last.
DictSet(d, key, v) ==
    IF \E i \in 1..Len(d) : d[i][1] = key
    THEN [i \in 1..Len(d) |-> IF d[i][1] = key THEN <<key, v>> ELSE d[i]]
    ELSE Append(d, <<key, v>>)

RECURSIVE Flatten(_)
\* the concatenation of a sequence of sequences
Flatten(ss) == IF ss = <<>> THEN <<>> ELSE Head(ss) \o Flatten(Tail(ss))

(***************************************************************************)
(* parseLonghurstXML and provinces_make_tree                               *)
(***************************************************************************)

\* "x,y x,y ..." -> [(float(x), float(y)), ...]
_parsePolygonCoordinates(coordinates) ==
    [i \in 1..Len(coordinates) |-> <<coordinates[i][1], coordinates[i][2]>>]

\* A province record that keeps the code, the box and the polygons of the
\* node but not its name.
ParseNodeWithoutName(node) ==
    LET bb == _parsePolygonCoordinates(node.boundedBy)
        bb_Poly == << bb[1], <<bb[1][1], bb[2][2]>>, bb[2],
                      <<bb[2][1], bb[1][2]>>, bb[1] >>
    IN  [provCode |-> node.provcode,
         provBB |-> Polygon(bb_Poly, <<>>),
         provGeoms |->
            [k \in 1..Len(node.the_geom) |->
                Polygon(_parsePolygonCoordinates(node.the_geom[k].outerBoundaryIs),
                        [h \in 1..Len(node.the_geom[k].innerBoundaryIs) |->
                            _parsePolygonCoordinates(
                                node.the_geom[k].innerBoundaryIs[h])])]]

\* The province record built from one node of the definition.
ParseNode(node) ==
    LET bb == _parsePolygonCoordinates(node.boundedBy)
        bb_Poly == << bb[1], <<bb[1][1], bb[2][2]>>, bb[2],
                      <<bb[2][1], bb[1][2]>>, bb[1] >>
        polygons ==
            [k \in 1..Len(node.the_geom) |->
                LET polygon == node.the_geom[k]
                    shell == _parsePolygonCoordinates(polygon.outerBoundaryIs)
                    holes_parsed ==
                        [h \in 1..Len(polygon.innerBoundaryIs) |->
                            _parsePolygonCoordinates(polygon.innerBoundaryIs[h])]
                IN  Polygon(shell, holes_parsed)]
    IN  [provName |-> node.provdescr,
         provCode |-> node.provcode,
         provBB |-> Polygon(bb_Poly, <<>>),
         provGeoms |-> polygons]

\* The province record that coord2longhurst.parseLonghurstXML builds from a
\* node: polygon.find("innerBoundaryIs") is the first inner boundary of the
\* polygon (None when it has none), and holes_parsed gets the coordinates
\* found within that one element.
coord2longhurst_ParseNode(node) ==
    LET bb == _parsePolygonCoordinates(node.boundedBy)
        bb_Poly == << bb[1], <<bb[1][1], bb[2][2]>>, bb[2],
                      <<bb[2][1], bb[1][2]>>, bb[1] >>
        polygons ==
            [k \in 1..Len(node.the_geom) |->
                LET polygon == node.the_geom[k]
                    shell == _parsePolygonCoordinates(polygon.outerBoundaryIs)
                    holes_parsed ==
                        IF Len(polygon.innerBoundaryIs) = 0 THEN <<>>
                        ELSE <<_parsePolygonCoordinates(polygon.innerBoundaryIs[1])>>
                IN  Polygon(shell, holes_parsed)]
    IN  [provName |-> node.provdescr,
         provCode |-> node.provcode,
         provBB |-> Polygon(bb_Poly, <<>>),
         provGeoms |-> polygons]

\* The province record that longhurst_province_finder.parseLonghurstXML
\* builds from a node: polygon.findall("innerBoundaryIs"), one hole each.
longhurst_province_finder_ParseNode(node) ==
    LET bb == _parsePolygonCoordinates(node.boundedBy)
        bb_Poly == << bb[1], <<bb[1][1], bb[2][2]>>, bb[2],
                      <<bb[2][1], bb[1][2]>>, bb[1] >>
        polygons ==
            [k \in 1..Len(node.the_geom) |->
                LET polygon == node.the_geom[k]
                    shell == _parsePolygonCoordinates(polygon.outerBoundaryIs)
                    holes_parsed ==
                        [h \in 1..Len(polygon.innerBoundaryIs) |->
                            _parsePolygonCoordinates(polygon.innerBoundaryIs[h])]
                IN  Polygon(shell, holes_parsed)]
    IN  [provName |-> node.provdescr,
         provCode |-> node.provcode,
         provBB |-> Polygon(bb_Poly, <<>>),
         provGeoms |-> polygons]

\* The three packages of the repository that define parseLonghurstXML.
Packages == {"latlon_to_region", "coord2longhurst", "longhurst_province_finder"}

\* The record that the parseLonghurstXML of a package builds from a node.
ParseNodeOf(pkg, node) ==
    IF pkg = "coord2longhurst" THEN coord2longhurst_ParseNode(node)
    ELSE IF pkg = "longhurst_province_finder"
    THEN longhurst_province_finder_ParseNode(node)
    ELSE ParseNode(node)

\* node.find(...) is not None / the attribute is set: an element or attribute
\* of the document is a field of its record, a missing one is no field of it.
Has(node, field) == field \in DOMAIN node

\* The dict key of a node without a fid attribute: node.get("fid") is None.
NoneFid == "None"

\* node.get("fid")
NodeFid(node) == IF Has(node, "fid") THEN node.fid ELSE NoneFid

\* No assertion of the loop body fails on the node: provcode, provdescr,
\* boundedBy/Box/coordinates and the_geom/MultiPolygon are found, and every
\* Polygon has its outerBoundaryIs with one coordinates element.
NodeAccepted(node) ==
    /\ Has(node, "provcode") /\ Has(node, "provdescr")
    /\ Has(node, "boundedBy") /\ Has(node, "the_geom")
    /\ \A k \in 1..Len(node.the_geom) : Has(node.the_geom[k], "outerBoundaryIs")

\* parseLonghurstXML raises AssertionError: some node fails an assertion.
ParseRaises(root) == \E i \in 1..Len(root) : ~NodeAccepted(root[i])

RECURSIVE ParseLoop(_, _, _)
\* The loop over root.iter("longhurst") from node i on.
ParseLoop(root, i, provinces) ==
    IF i > Len(root) THEN provinces
    ELSE ParseLoop(root, i + 1,
                   DictSet(provinces, NodeFid(root[i]), ParseNode(root[i])))

\* provinces[fid] = {...} for every node, in document order; the value when
\* no assertion fails.
parseLonghurstXML(root) == ParseLoop(root, 1, <<>>)

\* shapely.STRtree(polygons): the geometries, at their positions in the list.
STRtree(polygons) == [geometries |-> polygons]

\* polygons.extend(prov["provGeoms"]) over provinces.items()
TreePolygons(provinces) ==
    Flatten([i \in 1..Len(provinces) |-> provinces[i][2].provGeoms])

\* For each size of index the definitions give rise to, the orders in which
\* the index may hold its geometries internally.
OrdersBySize ==
    [n \in {Cardinality(UNION {{<<i, k>> : k \in 1..Len(d[i].the_geom)} :
                                   i \in 1..Len(d)}) : d \in Definitions} |->
        {o \in [1..n -> 1..n] : \A i, j \in 1..n : i # j => o[i] # o[j]}]

\* The orders in which an index over n geometries may hold them internally.
TreeOrders(n) == OrdersBySize[n]

\* The fids of the polygons collected in the reverse of the order in which
\* the polygons are put into the tree.
TreeFidsReordered(provinces) ==
    LET fids == Flatten([i \in 1..Len(provinces) |->
                    [k \in 1..Len(provinces[i][2].provGeoms) |-> provinces[i][1]]])
    IN  [i \in 1..Len(fids) |-> fids[Len(fids) + 1 - i]]

\* polygons_fids.extend([fid] * len(prov["provGeoms"])) over provinces.items()
TreeFids(provinces) ==
    Flatten([i \in 1..Len(provinces) |->
                [k \in 1..Len(provinces[i][2].provGeoms) |-> provinces[i][1]]])

\* (provinces_tree, polygons_fids)
provinces_make_tree(provinces) ==
    <<STRtree(TreePolygons(provinces)), TreeFids(provinces)>>

(***************************************************************************)
(* The two predicates the matcher calls.  Every polygon of the model comes *)
(* from a geometry definition and every query point from the coordinate    *)
(* grid, so both relations are tabulated once.                             *)
(***************************************************************************)

Coords == 0..MaxCoord

KnownPolygons ==
    UNION {UNION {{ParseNode(d[i]).provBB}
                     \cup {ParseNode(d[i]).provGeoms[k] :
                             k \in 1..Len(ParseNode(d[i]).provGeoms)} :
                  i \in 1..Len(d)} : d \in Definitions}
        \cup UNION {UNION {{ParseNodeOf(pkg, d[1]).provBB,
                            ParseNodeOf(pkg, d[1]).provGeoms[1]} :
                              pkg \in Packages} : d \in HoleDefinitions}

\* The <<point, polygon>> pairs with the point in the polygon's interior.
InteriorPoints ==
    UNION {{<<p, poly>> : p \in {q \in Coords \X Coords : InInterior(q, poly)}} :
              poly \in KnownPolygons}

\* The <<point, polygon>> pairs with the point on the polygon's boundary.
BoundaryPoints ==
    UNION {{<<p, poly>> : p \in {q \in Coords \X Coords : OnBoundary(q, poly)}} :
              poly \in KnownPolygons}

\* polygon.contains(point): true only for a point of the polygon's interior.
Contains(poly, p) == <<p, poly>> \in InteriorPoints

\* point covered_by polygon: interior or boundary.
CoveredBy(p, poly) == <<p, poly>> \in InteriorPoints \/ <<p, poly>> \in BoundaryPoints

(***************************************************************************)
(* Outcomes.  A function either returns a value or raises an exception;    *)
(* an exception carries the values interpolated into its message.          *)
(***************************************************************************)

\* An exception whose message interpolates nothing.
Exception(exc) == [exc |-> exc, lat |-> None, lon |-> None, codes |-> None]

\* RuntimeError(f"found multiple regions for lat {lat}, lon {lon}?" "({...})"):
\* only the first literal is an f-string, so the message holds lat and lon and
\* the second literal verbatim, with no province code in it.
AmbiguityError(lat, lon) ==
    [exc |-> "RuntimeError", lat |-> Some(lat), lon |-> Some(lon), codes |-> None]

NoError == Exception("")

Returned(regions) == [raised |-> FALSE, regions |-> regions, error |-> NoError]
Raised(error) == [raised |-> TRUE, regions |-> <<>>, error |-> error]

(***************************************************************************)
(* The candidate filters                                                   *)
(***************************************************************************)

\* The prefilter with the point built as Point(lon, lat) while the exact test
\* builds Point(lat, lon).
BoundingBoxesSwapped(lat, lon, provinces) ==
    LET loc == Point(lon, lat)
        Matches(item) == Contains(item[2].provBB, loc)
    IN  SelectSeq(provinces, Matches)

\* The provinces (a dict, in catalog order) whose provBB.contains(loc).
_findMatchingBoundingBoxes(lat, lon, provinces) ==
    LET loc == Point(lat, lon)
        Matches(item) == Contains(item[2].provBB, loc)
    IN  SelectSeq(provinces, Matches)

\* Every candidate kept, with no polygon tested.
FineKeepsEveryCandidate(lat, lon, provinces) == provinces

\* The provinces (a dict) with a polygon of provGeoms that contains loc.
_findMatchingProvinceFine(lat, lon, provinces) ==
    LET loc == Point(lat, lon)
        Matches(item) ==
            \E g \in 1..Len(item[2].provGeoms) : Contains(item[2].provGeoms[g], loc)
    IN  SelectSeq(provinces, Matches)

\* provincesTree.query(loc, predicate="covered_by"): the <<loc_id, r_id>> pairs
\* of the points and the tree geometries covering them.  The pairs come point
\* by point, and for one point in the order in which the tree visits its
\* geometries.
_findMatchingProvinceTree(latitude, longitude, provincesTree, order) ==
    LET n == Len(latitude)
        m == Len(provincesTree.geometries)
        loc == [i \in 1..n |-> Point(latitude[i], longitude[i])]
        pairs == [j \in 1..(n * m) |->
                    <<((j - 1) \div m) + 1, order[((j - 1) % m) + 1]>>]
        Hit(pair) == CoveredBy(loc[pair[1]], provincesTree.geometries[pair[2]])
    IN  SelectSeq(pairs, Hit)

(***************************************************************************)
(* _find_region_list                                                       *)
(***************************************************************************)

RECURSIVE ListLoop(_, _, _, _, _)
\* The loop over zip(latitude, longitude) from pair i on, with the regions so far.
ListLoop(latitude, longitude, provinces, i, regions) ==
    IF i > Min(Len(latitude), Len(longitude)) THEN Returned(regions)
    ELSE LET lat == latitude[i]
             lon == longitude[i]
             provincesBB == _findMatchingBoundingBoxes(lat, lon, provinces)
             matched_regions == _findMatchingProvinceFine(lat, lon, provincesBB)
         IN  IF Len(matched_regions) = 0
             THEN ListLoop(latitude, longitude, provinces, i + 1,
                           Append(regions, None))
             ELSE IF Len(matched_regions) = 1
             THEN ListLoop(latitude, longitude, provinces, i + 1,
                           Append(regions, Some(DictValues(matched_regions)[1])))
             ELSE Raised(AmbiguityError(lat, lon))

_find_region_list(latitude, longitude, provinces) ==
    ListLoop(latitude, longitude, provinces, 1, <<>>)

(***************************************************************************)
(* _find_region_tree                                                       *)
(***************************************************************************)

\* The map filled by the position of a pair in the result, not by its loc_id.
LocRegionIdMapByPosition(n, pairs) ==
    [i \in 1..n |-> IF i <= Len(pairs) THEN <<pairs[i][2]>> ELSE <<>>]

\* loc_region_id_map: for each point, the r_ids of its pairs, in pair order.
LocRegionIdMap(n, pairs) ==
    [i \in 1..n |->
        LET OfPoint(pair) == pair[1] = i
            mine == SelectSeq(pairs, OfPoint)
        IN  [k \in 1..Len(mine) |-> mine[k][2]]]

RECURSIVE TreeLoop(_, _, _, _, _, _, _)
\* The loop over enumerate(loc_region_id_map) from point idx on.
TreeLoop(latitude, longitude, provinces, polygons_fids, loc_region_id_map, idx, regions) ==
    IF idx > Len(loc_region_id_map) THEN Returned(regions)
    ELSE LET r == loc_region_id_map[idx]
         IN  IF Len(r) = 0
             THEN TreeLoop(latitude, longitude, provinces, polygons_fids,
                           loc_region_id_map, idx + 1, Append(regions, None))
             ELSE IF Len(r) = 1
             THEN TreeLoop(latitude, longitude, provinces, polygons_fids,
                           loc_region_id_map, idx + 1,
                           Append(regions,
                                  Some(DictGet(provinces, polygons_fids[r[1]]))))
             ELSE \* "for idx in r" rebinds idx: after the loop it is the last
                  \* tree position of r, and the message reads latitude[idx].
                  LET last == r[Len(r)]
                  IN  IF last > Len(latitude)
                      THEN Raised(Exception("IndexError"))
                      ELSE Raised(AmbiguityError(latitude[last], longitude[last]))

_find_region_tree(latitude, longitude, provinces, provinces_tree, polygons_fids, order) ==
    IF Len(latitude) # Len(longitude) THEN Raised(Exception("AssertionError"))
    ELSE LET pairs == _findMatchingProvinceTree(latitude, longitude,
                                                provinces_tree, order)
             loc_region_id_map == LocRegionIdMap(Len(latitude), pairs)
         IN  TreeLoop(latitude, longitude, provinces, polygons_fids,
                      loc_region_id_map, 1, <<>>)

(***************************************************************************)
(* find_region                                                             *)
(*                                                                         *)
(* An argument is [type, value]: a latitude or longitude is a "float", an  *)
(* "int" or a "list" of floats; provinces_tree is a "bool" or an           *)
(* "STRtree".  order and emptyQueryRaises are the choices the geometry     *)
(* library makes: the order of its query results, and whether a query      *)
(* with an empty list of points is an error.                               *)
(***************************************************************************)

FloatArg(v) == [type |-> "float", value |-> v]
IntArg(v) == [type |-> "int", value |-> v]
ListArg(v) == [type |-> "list", value |-> v]
BoolArg(v) == [type |-> "bool", value |-> v]
TreeArg(t) == [type |-> "STRtree", value |-> t]

\* What the call gives back to its caller.
Return(unwrapped, value) ==
    [status |-> "returned", unwrapped |-> unwrapped, regions |-> value,
     error |-> NoError]
Raise(error) ==
    [status |-> "raised", unwrapped |-> FALSE, regions |-> <<>>, error |-> error]

\* "if provinces_tree is True:": a pre-built tree does not select the index.
TruthyFlagOnly(provinces_tree) ==
    provinces_tree.type = "bool" /\ provinces_tree.value

\* "if provinces_tree:": True, or a tree that holds a geometry.
Truthy(provinces_tree) ==
    IF provinces_tree.type = "bool" THEN provinces_tree.value
    ELSE Len(provinces_tree.value.geometries) > 0

\* The list of regions handed back as it is, also for a single pair.
UnwrapsNothing(latitude, list_passed) == FALSE

\* "if len(latitude) == 1 and not list_passed: regions = regions[0]"
Unwraps(latitude, list_passed) == Len(latitude) = 1 /\ ~list_passed

find_region(latitude, longitude, longhurst_definition, provinces_tree, polygons_fids, xml, order, emptyQueryRaises) ==
    LET provinces == IF longhurst_definition = None
                     THEN parseLonghurstXML(xml)
                     ELSE longhurst_definition[1]
        list_passed == latitude.type # "float"
        lat1 == IF latitude.type = "float" THEN ListArg(<<latitude.value>>)
                ELSE latitude
        lon1 == IF longitude.type = "float" THEN ListArg(<<longitude.value>>)
                ELSE longitude
        built == IF provinces_tree.type = "STRtree"
                 THEN <<provinces_tree.value, polygons_fids>>
                 ELSE LET made == provinces_make_tree(provinces)
                      IN  <<made[1], Some(made[2])>>
    IN  IF longhurst_definition = None /\ ParseRaises(xml)
        THEN \* an assertion of parseLonghurstXML fails
             Raise(Exception("AssertionError"))
        ELSE IF latitude.type = "float" /\ longitude.type # "float"
        THEN Raise(Exception("AssertionError"))
        ELSE IF longitude.type = "float" /\ list_passed
        THEN Raise(Exception("AssertionError"))
        ELSE IF Truthy(provinces_tree) /\ built[2] = None
        THEN Raise(Exception("AssertionError"))
        ELSE IF lat1.type # "list" \/ lon1.type # "list"
        THEN \* zip() or len() of a number
             Raise(Exception("TypeError"))
        ELSE IF Truthy(provinces_tree) /\ lat1.value = <<>> /\ lon1.value = <<>>
                /\ emptyQueryRaises
        THEN Raise(Exception("TypeError"))
        ELSE LET found ==
                    IF Truthy(provinces_tree)
                    THEN _find_region_tree(lat1.value, lon1.value, provinces,
                                           built[1], built[2][1], order)
                    ELSE _find_region_list(lat1.value, lon1.value, provinces)
             IN  IF found.raised THEN Raise(found.error)
                 ELSE IF Unwraps(lat1.value, list_passed)
                 THEN Return(TRUE, found.regions[1])
                 ELSE Return(FALSE, found.regions)

\* A scan that marks every candidate it tests in the candidate's record.
ScanMarksCandidates(latitude, longitude, provinces, provinces_tree) ==
    IF Truthy(provinces_tree) THEN provinces
    ELSE LET candidates ==
                 _findMatchingBoundingBoxes(latitude[1], longitude[1], provinces)
             Tested(k) == \E c \in DOMAIN candidates :
                              candidates[c][1] = provinces[k][1]
         IN  [k \in 1..Len(provinces) |->
                IF Tested(k)
                THEN <<provinces[k][1], [provinces[k][2] EXCEPT !.provName = "tested"]>>
                ELSE provinces[k]]

\* A scan that marks every province it matches in the province's record.
ScanMarksMatches(latitude, longitude, provinces, provinces_tree) ==
    IF Truthy(provinces_tree) THEN provinces
    ELSE LET matched ==
                 _findMatchingProvinceFine(latitude[1], longitude[1], provinces)
             Matched(k) == \E c \in DOMAIN matched : matched[c][1] = provinces[k][1]
         IN  [k \in 1..Len(provinces) |->
                IF Matched(k)
                THEN <<provinces[k][1], [provinces[k][2] EXCEPT !.provName = "matched"]>>
                ELSE provinces[k]]

\* The catalog object when find_region has matched against it: the filters
\* fill new dicts (lines 341, 355), the strategies new lists (lines 139, 178,
\* 182) and provinces_make_tree new lists (lines 319-320); no statement
\* assigns into provinces or into a province record.
ProvincesAfter(latitude, longitude, provinces, provinces_tree) == provinces

(***************************************************************************)
(* Logging.  The library reports through logger.debug and logger.info; a   *)
(* record reaches the console when its level is at least the level that    *)
(* logging.basicConfig set.                                                *)
(***************************************************************************)

LogRecord(level, msg, region) == [level |-> level, msg |-> msg, region |-> region]

\* logger.debug("Parsed province %s (%s)", provName, provCode), once per node
ParseRecords(catalog) ==
    [k \in 1..Len(catalog) |-> LogRecord("DEBUG", "Parsed province", Some(catalog[k][2]))]

\* logger.info("plotting...") of _exportFigure
PlotRecords(plot) ==
    IF plot THEN <<LogRecord("INFO", "plotting...", None)>> ELSE <<>>

\* What the strategies log for the single pair of a call with two floats:
\* "No province found matching ..." (the linear strategy then lists the
\* candidates of the prefilter), "Found region: ... --> region", and nothing
\* when they raise.
MatchRecords(lat, lon, catalog, usesTree, outcome) ==
    IF outcome.status = "raised" THEN <<>>
    ELSE IF outcome.regions = None
    THEN LET provincesBB == _findMatchingBoundingBoxes(lat, lon, catalog)
         IN  <<LogRecord("DEBUG", "No province found matching", None),
               LogRecord("DEBUG", "This coordinate is either on land or", None)>>
             \o (IF usesTree THEN <<>>
                 ELSE [k \in 1..Len(provincesBB) |->
                          LogRecord("DEBUG", "fid, provCode, provName",
                                    Some(provincesBB[k][2]))])
    ELSE <<LogRecord("DEBUG", "Found region", outcome.regions)>>

\* logging.basicConfig(level=logging.DEBUG if args.verbose else logging.INFO)
Emitted(records, verbose) ==
    LET Passes(r) == verbose \/ r.level = "INFO"
    IN  SelectSeq(records, Passes)

\* float(text) of argparse's type=float: the number a numeral denotes, None
\* (argparse reports the argument as invalid) for any other text.
ParseFloat(text) ==
    IF \E n \in Coords : ToString(n) = text
    THEN Some(CHOOSE n \in Coords : ToString(n) = text)
    ELSE None

(***************************************************************************)
(* State: the packaged geometry definition, what the caller has built from *)
(* it so far, the coordinates it queries, and the call it made.            *)
(***************************************************************************)
VARIABLES
    longhurst_xml,    \* the decoded longhurst.xml
    provinces,        \* None, or the caller's parseLonghurstXML() result
    provinces_tree,   \* None, or the caller's pre-built tree
    polygons_fids,    \* None, or the pre-built tree's list of fids
    latitude,         \* the latitude argument of the query
    longitude,        \* the longitude argument of the query
    call,             \* None, or the other arguments of the find_region call
    result,           \* None, or the outcome of the find_region call
    queries,          \* the find_region calls in progress over one catalog
    figure,           \* pyplot's current figure: the queries drawn into it
    query_order,      \* None, or the order in which the index returns hits
    argv,             \* None, or the command line of scripts/find_region.py
    exit_code,        \* None, or the exit status of the script
    stderr,           \* the log records the script has written to the console
    package           \* the package whose functions the caller imports

\* The state of the calls that run side by side.
sessionVars == <<queries, figure, query_order>>

\* The state of a run of the command-line script.
mainVars == <<argv, exit_code, stderr>>

vars == <<longhurst_xml, provinces, provinces_tree, polygons_fids,
          latitude, longitude, call, result, queries, figure, query_order,
          argv, exit_code, stderr, package>>

\* The sequences over S of length at most n.
SeqsUpTo(S, n) == UNION {[1..k -> S] : k \in 0..n}

\* What a caller passes as latitude or longitude.
CoordArgs ==
    {FloatArg(v) : v \in Coords} \cup {IntArg(0)}
        \cup {ListArg(l) : l \in SeqsUpTo(Coords, MaxBatch)}

Init ==
    /\ longhurst_xml \in Definitions
    /\ provinces = None
    /\ provinces_tree = None
    /\ polygons_fids = None
    /\ latitude \in CoordArgs
    /\ longitude \in CoordArgs
    /\ call = None
    /\ result = None
    /\ queries = <<>>
    /\ figure = {}
    /\ query_order = None
    /\ argv = None
    /\ exit_code = None
    /\ stderr = <<>>
    /\ package = "latlon_to_region"

\* provinces = parseLonghurstXML(): the catalog, or the AssertionError that
\* ends the caller.
ParseLonghurstXML ==
    /\ result = None
    /\ provinces = None
    /\ IF ParseRaises(longhurst_xml)
       THEN /\ result' = Some(Raise(Exception("AssertionError")))
            /\ UNCHANGED provinces
       ELSE /\ provinces' = Some(parseLonghurstXML(longhurst_xml))
            /\ UNCHANGED result
    /\ UNCHANGED <<longhurst_xml, provinces_tree, polygons_fids,
                   latitude, longitude, call>>
    /\ UNCHANGED sessionVars
    /\ UNCHANGED mainVars
    /\ UNCHANGED package

\* provinces_tree, polygons_fids = provinces_make_tree(provinces)
ProvincesMakeTree ==
    /\ result = None
    /\ provinces # None
    /\ provinces_tree = None
    /\ LET made == provinces_make_tree(provinces[1])
       IN  /\ provinces_tree' = Some(made[1])
           /\ polygons_fids' = Some(made[2])
    /\ UNCHANGED <<longhurst_xml, provinces, latitude, longitude, call, result>>
    /\ UNCHANGED sessionVars
    /\ UNCHANGED mainVars
    /\ UNCHANGED package

\* The values the caller passes for provinces_tree and polygons_fids: the tree
\* it has built, with or without its list of fids, and a flag otherwise.
TreeArgs ==
    IF provinces_tree = None
    THEN {<<BoolArg(FALSE), None>>, <<BoolArg(TRUE), None>>}
    ELSE {<<TreeArg(provinces_tree[1]), polygons_fids>>,
          <<TreeArg(provinces_tree[1]), None>>}

\* The choices of the geometry library that a call with these arguments meets.
QueryOrders(treeArg) ==
    LET n == Len(TreePolygons(parseLonghurstXML(longhurst_xml)))
    IN  IF Truthy(treeArg[1]) THEN TreeOrders(n) ELSE {[i \in 1..n |-> i]}

EmptyQueryRaises(treeArg) ==
    IF Truthy(treeArg[1]) /\ latitude = ListArg(<<>>) THEN BOOLEAN ELSE {FALSE}

\* region(s) = find_region(latitude, longitude, provinces, ...): the caller
\* passes what it has built.
FindRegion ==
    /\ result = None
    /\ \E treeArg \in TreeArgs :
       \E order \in QueryOrders(treeArg),
          emptyQueryRaises \in EmptyQueryRaises(treeArg) :
          /\ call' = Some([longhurst_definition |-> provinces,
                           provinces_tree |-> treeArg[1],
                           polygons_fids |-> treeArg[2]])
          /\ result' = Some(find_region(latitude, longitude, provinces,
                                        treeArg[1], treeArg[2], longhurst_xml,
                                        order, emptyQueryRaises))
    /\ UNCHANGED <<longhurst_xml, provinces, provinces_tree, polygons_fids,
                   latitude, longitude>>
    /\ UNCHANGED sessionVars
    /\ UNCHANGED mainVars
    /\ UNCHANGED package

Next == ParseLonghurstXML \/ ProvincesMakeTree \/ FindRegion

Spec == Init /\ [][Next]_vars

(***************************************************************************)
(* Decoding alone: parseLonghurstXML on documents whose nodes may lack an  *)
(* attribute or an element.                                                *)
(***************************************************************************)

\* Most nodes of a document.
MaxNodes == 2

\* The node without one of its fields.
Without(node, field) == [f \in DOMAIN node \ {field} |-> node[f]]

\* A complete node, and what is left of it when the fid attribute, an
\* element, every Polygon of the MultiPolygon or the outerBoundaryIs of its
\* Polygon is missing.
NodeVariants ==
    LET complete == DefAdjacent[1]
    IN  {complete, DefAdjacent[2]}
            \cup {Without(complete, f) :
                     f \in {"fid", "provcode", "provdescr", "boundedBy", "the_geom"}}
            \cup {[complete EXCEPT !.the_geom = <<>>],
                  [complete EXCEPT !.the_geom =
                       << Without(complete.the_geom[1], "outerBoundaryIs") >>]}

Documents == UNION {[1..n -> NodeVariants] : n \in 1..MaxNodes}

InitParse ==
    /\ longhurst_xml \in Documents
    /\ provinces = None
    /\ provinces_tree = None
    /\ polygons_fids = None
    /\ latitude = FloatArg(0)
    /\ longitude = FloatArg(0)
    /\ call = None
    /\ result = None
    /\ queries = <<>>
    /\ figure = {}
    /\ query_order = None
    /\ argv = None
    /\ exit_code = None
    /\ stderr = <<>>
    /\ package = "latlon_to_region"

NextParse == ParseLonghurstXML

SpecParse == InitParse /\ [][NextParse]_vars

(***************************************************************************)
(* Calls side by side: find_region calls that run as threads over one      *)
(* catalog and index built beforehand.  A call takes two steps, lines      *)
(* 99-116 (the arguments and the figure) and lines 118-133 (the match and  *)
(* the return), and the steps of different calls interleave freely.  The   *)
(* calls hold references: each step reads the catalog, the tree and the    *)
(* list of fids as they are when it runs.                                  *)
(***************************************************************************)

\* The number of calls that run side by side.
MaxQueries == 2

\* A call of the session: a single pair, the strategy (the linear one, the
\* flag True, or the pre-built tree with its fids) and whether a plot_file
\* is given.
QueryArgs ==
    [latitude : {FloatArg(0), FloatArg(MaxCoord)}, longitude : {FloatArg(0)},
     strategy : {"linear", "flag", "tree"}, plot_file : BOOLEAN]

NewQuery(args) ==
    [latitude |-> args.latitude, longitude |-> args.longitude,
     strategy |-> args.strategy, plot_file |-> args.plot_file,
     pc |-> "start", preceded |-> {}, image |-> None, outcome |-> None]

InitQueries ==
    /\ longhurst_xml = DefOverlap
    /\ provinces = Some(parseLonghurstXML(longhurst_xml))
    /\ provinces_tree = Some(provinces_make_tree(provinces[1])[1])
    /\ polygons_fids = Some(provinces_make_tree(provinces[1])[2])
    /\ latitude = FloatArg(0)
    /\ longitude = FloatArg(0)
    /\ call = None
    /\ result = None
    /\ queries \in [1..MaxQueries -> {NewQuery(args) : args \in QueryArgs}]
    /\ figure = {}
    /\ query_order \in
          {Some(order) : order \in TreeOrders(Len(provinces_tree[1].geometries))}
    /\ argv = None
    /\ exit_code = None
    /\ stderr = <<>>
    /\ package = "latlon_to_region"

\* The provinces_tree and polygons_fids arguments of call q.
TreeArgOf(q) ==
    IF queries[q].strategy = "tree" THEN TreeArg(provinces_tree[1])
    ELSE BoolArg(queries[q].strategy = "flag")
FidsArgOf(q) == IF queries[q].strategy = "tree" THEN polygons_fids ELSE None

\* Lines 99-116 of call q: the arguments are bound and, with a plot_file,
\* _exportFigure draws the catalog and the pair into plt.gcf(), the one
\* current figure of pyplot, and saves that figure.
FindRegionEnter(q) ==
    /\ queries[q].pc = "start"
    /\ LET drawn == IF queries[q].plot_file THEN figure \cup {q} ELSE figure
       IN  /\ figure' = drawn
           /\ queries' =
                [queries EXCEPT
                    ![q].pc = "matching",
                    ![q].preceded = {p \in 1..MaxQueries : queries[p].pc = "done"},
                    ![q].image = IF queries[q].plot_file THEN Some(drawn) ELSE None]
    /\ UNCHANGED <<longhurst_xml, provinces, provinces_tree, polygons_fids,
                   latitude, longitude, call, result, query_order>>
    /\ UNCHANGED mainVars
    /\ UNCHANGED package

\* Lines 118-133 of call q: the match and the return.
FindRegionMatch(q) ==
    /\ queries[q].pc = "matching"
    /\ queries' =
         [queries EXCEPT
             ![q].pc = "done",
             ![q].outcome =
                 Some(find_region(queries[q].latitude, queries[q].longitude,
                                  provinces, TreeArgOf(q), FidsArgOf(q),
                                  longhurst_xml, query_order[1], FALSE))]
    /\ provinces' = Some(ProvincesAfter(<<queries[q].latitude.value>>,
                                        <<queries[q].longitude.value>>,
                                        provinces[1], TreeArgOf(q)))
    /\ UNCHANGED <<longhurst_xml, provinces_tree, polygons_fids,
                   latitude, longitude, call, result, figure, query_order>>
    /\ UNCHANGED mainVars
    /\ UNCHANGED package

NextQueries == \E q \in 1..MaxQueries : FindRegionEnter(q) \/ FindRegionMatch(q)

SpecQueries == InitQueries /\ [][NextQueries]_vars

(***************************************************************************)
(* The command-line script: scripts/find_region.py.                        *)
(***************************************************************************)

\* What a user types after -lat or -lon: a numeral, or some other word.
ArgTexts == {ToString(n) : n \in Coords} \cup {"north"}

\* The command lines: -lat and -lon given or left out, -o, -t and -v set or not.
CommandLines ==
    [latitude : {None} \cup {Some(text) : text \in ArgTexts},
     longitude : {None} \cup {Some(text) : text \in ArgTexts},
     out_file : BOOLEAN, use_tree : BOOLEAN, verbose : BOOLEAN]

InitMain ==
    /\ longhurst_xml \in Definitions
    /\ provinces = None
    /\ provinces_tree = None
    /\ polygons_fids = None
    /\ latitude = FloatArg(0)
    /\ longitude = FloatArg(0)
    /\ call = None
    /\ result = None
    /\ queries = <<>>
    /\ figure = {}
    /\ query_order = None
    /\ argv \in {Some(line) : line \in CommandLines}
    /\ exit_code = None
    /\ stderr = <<>>
    /\ package = "latlon_to_region"

\* args.latitude / args.longitude of parser.parse_args(): None when the
\* required option is missing or its text is no float (argparse exits with 2).
ParsedLatitude ==
    IF argv[1].latitude = None THEN None ELSE ParseFloat(argv[1].latitude[1])
ParsedLongitude ==
    IF argv[1].longitude = None THEN None ELSE ParseFloat(argv[1].longitude[1])

\* main(): parse_args, basicConfig, and the one call of find_region whose
\* value is bound to _ and dropped.  An exception of find_region ends the
\* interpreter with its traceback and status 1; a return of main ends it
\* with status 0.
Main ==
    /\ argv # None
    /\ exit_code = None
    /\ IF ParsedLatitude = None \/ ParsedLongitude = None
       THEN /\ exit_code' = Some(2)
            /\ stderr' = <<LogRecord("ERROR", "usage", None)>>
            /\ UNCHANGED <<latitude, longitude, call, result, figure>>
       ELSE /\ latitude' = FloatArg(ParsedLatitude[1])
            /\ longitude' = FloatArg(ParsedLongitude[1])
            /\ call' = Some([longhurst_definition |-> None,
                             provinces_tree |-> BoolArg(argv[1].use_tree),
                             polygons_fids |-> None])
            /\ \E order \in QueryOrders(<<BoolArg(argv[1].use_tree), None>>) :
                  result' = Some(find_region(latitude', longitude', None,
                                             BoolArg(argv[1].use_tree), None,
                                             longhurst_xml, order, FALSE))
            /\ figure' = IF argv[1].out_file THEN {1} ELSE figure
            /\ stderr' =
                  Emitted(ParseRecords(parseLonghurstXML(longhurst_xml))
                              \o PlotRecords(argv[1].out_file)
                              \o MatchRecords(ParsedLatitude[1], ParsedLongitude[1],
                                              parseLonghurstXML(longhurst_xml),
                                              argv[1].use_tree, result'[1]),
                          argv[1].verbose)
                      \o (IF result'[1].status = "raised"
                          THEN <<LogRecord("ERROR", "Traceback", None)>>
                          ELSE <<>>)
            /\ exit_code' = Some(IF result'[1].status = "raised" THEN 1 ELSE 0)
    /\ UNCHANGED <<longhurst_xml, provinces, provinces_tree, polygons_fids,
                   queries, query_order, argv, package>>

NextMain == Main

SpecMain == InitMain /\ [][NextMain]_vars

(***************************************************************************)
(* The three parseLonghurstXML of the repository on polygons with inner    *)
(* boundaries, and the exact test on the catalogs they build.              *)
(***************************************************************************)

InitHoles ==
    /\ longhurst_xml \in HoleDefinitions
    /\ provinces = None
    /\ provinces_tree = None
    /\ polygons_fids = None
    /\ latitude \in {FloatArg(n) : n \in Coords}
    /\ longitude \in {FloatArg(n) : n \in Coords}
    /\ call = None
    /\ result = None
    /\ queries = <<>>
    /\ figure = {}
    /\ query_order = None
    /\ argv = None
    /\ exit_code = None
    /\ stderr = <<>>
    /\ package \in Packages

\* provinces = parseLonghurstXML(...) of the package: one record per node,
\* under the node's fid.
ParseLonghurstXMLOf ==
    /\ provinces = None
    /\ provinces' =
          Some([i \in 1..Len(longhurst_xml) |->
                   <<NodeFid(longhurst_xml[i]),
                     ParseNodeOf(package, longhurst_xml[i])>>])
    /\ UNCHANGED <<longhurst_xml, provinces_tree, polygons_fids, latitude,
                   longitude, call, result, package>>
    /\ UNCHANGED sessionVars
    /\ UNCHANGED mainVars

\* provincesBB = _findMatchingBoundingBoxes(...);
\* _findMatchingProvinceFine(latitude, longitude, provincesBB): the two
\* filters are the same in the three packages.
FindMatchingProvinceFine ==
    /\ provinces # None
    /\ result = None
    /\ LET provincesBB ==
               _findMatchingBoundingBoxes(latitude.value, longitude.value,
                                          provinces[1])
       IN  result' = Some(_findMatchingProvinceFine(latitude.value,
                                                    longitude.value, provincesBB))
    /\ UNCHANGED <<longhurst_xml, provinces, provinces_tree, polygons_fids,
                   latitude, longitude, call, package>>
    /\ UNCHANGED sessionVars
    /\ UNCHANGED mainVars

NextHoles == ParseLonghurstXMLOf \/ FindMatchingProvinceFine

SpecHoles == InitHoles /\ [][NextHoles]_vars

(***************************************************************************)
(* Vocabulary of the properties                                            *)
(***************************************************************************)

Done == result # None
Outcome == result[1]
UsesTree == Truthy(call[1].provinces_tree)
ReturnedOK == Done /\ Outcome.status = "returned"
RaisedError == Done /\ Outcome.status = "raised"

\* The catalog the call matches against.
Catalog == IF provinces = None THEN parseLonghurstXML(longhurst_xml)
           ELSE provinces[1]

BothFloats == latitude.type = "float" /\ longitude.type = "float"
BothLists == latitude.type = "list" /\ longitude.type = "list"

\* A single coordinate pair, or two lists of the same length.
WellFormed ==
    BothFloats \/ (BothLists /\ Len(latitude.value) = Len(longitude.value))

\* A finished call with well-formed coordinates, whose pre-built tree, if it
\* passed one, came with its list of fids.
ValidCall ==
    /\ Done /\ WellFormed
    /\ call[1].provinces_tree.type = "STRtree" => call[1].polygons_fids # None

\* The latitudes and longitudes of a well-formed query, as lists.
Lats == IF latitude.type = "list" THEN latitude.value ELSE <<latitude.value>>
Lons == IF longitude.type = "list" THEN longitude.value ELSE <<longitude.value>>
NPoints == Len(Lats)

\* The query point that the matcher builds for pair i.
QueryPoint(i) == Point(Lats[i], Lons[i])

\* Entry i of the result, for a call that returned.
Entry(i) == IF Outcome.unwrapped THEN Outcome.regions ELSE Outcome.regions[i]

\* The polygons of the catalog as <<position of the province, polygon>>.
CatalogPolygons ==
    UNION {{<<k, Catalog[k][2].provGeoms[g]>> :
               g \in 1..Len(Catalog[k][2].provGeoms)} : k \in 1..Len(Catalog)}

\* Planar position p lies in the interior / on the boundary of the polygon.
Inside(p, poly) == <<p, poly>> \in InteriorPoints
OnEdge(p, poly) == <<p, poly>> \in BoundaryPoints

\* The polygons that cover position p, boundary included.
Covering(p) == {kp \in CatalogPolygons : Inside(p, kp[2]) \/ OnEdge(p, kp[2])}

\* The provinces (positions in the catalog) with p inside one of their polygons.
InteriorOwners(p) == {kp[1] : kp \in {c \in CatalogPolygons : Inside(p, c[2])}}

\* Every way the index may order its results.
AllOrders == TreeOrders(Len(TreePolygons(Catalog)))

\* Every way the library may order the results of the call's own strategy:
\* the linear strategy makes no query of the index.
CallOrders ==
    IF UsesTree THEN AllOrders ELSE {[k \in 1..Len(TreePolygons(Catalog)) |-> k]}

\* The same call made with the other strategy.
OtherStrategy(order) ==
    find_region(latitude, longitude, call[1].longhurst_definition,
                BoolArg(~UsesTree), None, longhurst_xml, order, FALSE)

\* Two outcomes a caller cannot tell apart: the same value, or the ambiguity
\* error both times.
SameOutcome(o1, o2) ==
    \/ /\ o1.status = "returned" /\ o2.status = "returned"
       /\ o1.unwrapped = o2.unwrapped
       /\ o1.regions = o2.regions
    \/ /\ o1.status = "raised" /\ o2.status = "raised"
       /\ o1.error.exc = "RuntimeError" /\ o2.error.exc = "RuntimeError"

(***************************************************************************)
(* C1: for every catalog and every batch of coordinate pairs, the linear   *)
(* and the indexed strategy give the same outcome: the same ordered        *)
(* results, or the ambiguity error both times.                             *)
(***************************************************************************)
C1_StrategiesAgree ==
    (ValidCall /\ NPoints > 0) =>
        \A order \in AllOrders : SameOutcome(Outcome, OtherStrategy(order))

(***************************************************************************)
(* C2: the query point of (latitude, longitude) has x = longitude and      *)
(* y = latitude: a province whose polygon covers planar position           *)
(* (x = a, y = b), alone among the polygons of the catalog, is the result  *)
(* of find_region(latitude = b, longitude = a).                            *)
(***************************************************************************)
C2_XIsLongitude ==
    (Done /\ BothFloats) =>
        LET position == <<longitude.value, latitude.value>>
        IN  \A kp \in CatalogPolygons :
                (Inside(position, kp[2]) /\ Covering(position) = {kp}) =>
                    /\ Outcome.status = "returned"
                    /\ Outcome.regions = Some(Catalog[kp[1]][2])

(***************************************************************************)
(* C3: for two lists of N coordinates, a call that returns gives a list of *)
(* exactly N entries, and entry i is the province (or None) of pair i:     *)
(* what the same call gives for pair i alone, in whatever order the index  *)
(* returns its pairs.                                                      *)
(***************************************************************************)
SinglePair(i, order) ==
    find_region(ListArg(<<Lats[i]>>), ListArg(<<Lons[i]>>),
                call[1].longhurst_definition, call[1].provinces_tree,
                call[1].polygons_fids, longhurst_xml, order, FALSE)

C3_EntryIsProvinceOfPair ==
    (ReturnedOK /\ BothLists /\ Len(latitude.value) = Len(longitude.value)) =>
        /\ ~Outcome.unwrapped
        /\ Len(Outcome.regions) = NPoints
        /\ \A i \in 1..NPoints : \A order \in CallOrders :
               SinglePair(i, order) = Return(FALSE, <<Outcome.regions[i]>>)

\* The indexed strategy returned two different provinces for two points.
C3_Witness ==
    /\ ReturnedOK /\ BothLists /\ UsesTree
    /\ Len(latitude.value) = 2 /\ Len(longitude.value) = 2
    /\ Outcome.regions[1] # None /\ Outcome.regions[2] # None
    /\ Outcome.regions[1] # Outcome.regions[2]

(***************************************************************************)
(* C4: the result is unwrapped (a province or None, not a list) exactly    *)
(* when latitude and longitude were both single values; for two lists,     *)
(* also of length 1, it is a list of the same length.                      *)
(***************************************************************************)
C4_UnwrappedIffSingleValues ==
    ReturnedOK =>
        /\ Outcome.unwrapped <=> BothFloats
        /\ (BothLists /\ Len(latitude.value) = Len(longitude.value)) =>
               Len(Outcome.regions) = Len(latitude.value)

\* Two lists of length 1 gave a list of one province.
C4_Witness ==
    /\ ReturnedOK /\ BothLists
    /\ Len(latitude.value) = 1 /\ Len(longitude.value) = 1
    /\ ~Outcome.unwrapped
    /\ Len(Outcome.regions) = 1 /\ Outcome.regions[1] # None

(***************************************************************************)
(* C5: if some point of the batch lies inside polygons of two or more      *)
(* distinct provinces, find_region raises the ambiguity error              *)
(* (RuntimeError) and returns nothing, under both strategies.              *)
(***************************************************************************)
C5_AmbiguityRaisesRuntimeError ==
    (ValidCall
          /\ \E i \in 1..NPoints : Cardinality(InteriorOwners(QueryPoint(i))) >= 2) =>
        /\ Outcome.status = "raised"
        /\ Outcome.error.exc = "RuntimeError"

(***************************************************************************)
(* C6: the ambiguity error reports the latitude and longitude of the       *)
(* ambiguous point itself and the codes of the provinces that claim it.    *)
(***************************************************************************)
\* The provinces that claim pair i under the strategy of the call.
Claimants(i) ==
    IF UsesTree THEN {kp[1] : kp \in Covering(QueryPoint(i))}
    ELSE InteriorOwners(QueryPoint(i))

C6_ErrorReportsPointAndCodes ==
    (ValidCall /\ RaisedError /\ Outcome.error.exc = "RuntimeError") =>
        \E i \in 1..NPoints :
            /\ Cardinality(Claimants(i)) >= 2
            /\ Outcome.error.lat = Some(Lats[i])
            /\ Outcome.error.lon = Some(Lons[i])
            /\ Outcome.error.codes =
                   Some({Catalog[k][2].provCode : k \in Claimants(i)})

(***************************************************************************)
(* C7: a point covered by no polygon yields None at its position and       *)
(* never makes the call raise; the other points of the batch are still     *)
(* resolved.                                                               *)
(***************************************************************************)
C7_NoMatchIsNone ==
    (ValidCall /\ NPoints > 0) =>
        LET covering == [i \in 1..NPoints |-> Covering(QueryPoint(i))]
        IN  /\ (\A i \in 1..NPoints : covering[i] = {}) => ReturnedOK
            /\ RaisedError => \E i \in 1..NPoints : covering[i] # {}
            /\ ReturnedOK =>
                  \A i \in 1..NPoints :
                      /\ covering[i] = {} => Entry(i) = None
                      /\ \A kp \in covering[i] :
                            (Inside(QueryPoint(i), kp[2]) /\ covering[i] = {kp})
                                => Entry(i) = Some(Catalog[kp[1]][2])

\* A batch of a point outside every polygon and a point inside one.
C7_Witness ==
    /\ ReturnedOK /\ BothLists /\ NPoints = 2 /\ Len(longitude.value) = 2
    /\ Covering(QueryPoint(1)) = {}
    /\ Outcome.regions[1] = None
    /\ Outcome.regions[2] # None

(***************************************************************************)
(* C8: the exact containment test treats a point on an edge or vertex of   *)
(* a polygon's shell as contained, in the linear strategy's test           *)
(* (_findMatchingProvinceFine) and in the indexed query                    *)
(* (_findMatchingProvinceTree) alike.                                      *)
(***************************************************************************)
C8_ShellPointsAreContained ==
    ValidCall =>
        \A i \in 1..NPoints : \A kp \in CatalogPolygons :
            OnRing(QueryPoint(i), kp[2].shell) =>
                /\ \E m \in DOMAIN _findMatchingProvinceFine(Lats[i], Lons[i], Catalog) :
                      _findMatchingProvinceFine(Lats[i], Lons[i], Catalog)[m]
                          = Catalog[kp[1]]
                /\ LET tree == STRtree(TreePolygons(Catalog))
                       pairs == _findMatchingProvinceTree(
                                    Lats, Lons, tree,
                                    [j \in 1..Len(tree.geometries) |-> j])
                   IN  \E m \in DOMAIN pairs :
                           /\ pairs[m][1] = i
                           /\ tree.geometries[pairs[m][2]] = kp[2]

(***************************************************************************)
(* C9: for a catalog whose polygons have pairwise disjoint interiors but   *)
(* may share edges or vertices, no query raises the ambiguity error, also  *)
(* for a point on an edge shared by two adjacent provinces.                *)
(***************************************************************************)
\* No position of the grid lies inside two polygons of the catalog (the
\* polygons of the geometry definitions overlap at a grid position or not at all).
DisjointInteriors ==
    \A p \in Coords \X Coords :
        Cardinality({kp \in CatalogPolygons : Inside(p, kp[2])}) <= 1

C9_SharedEdgesNotAmbiguous ==
    (ValidCall /\ DisjointInteriors) =>
        ~(Outcome.status = "raised" /\ Outcome.error.exc = "RuntimeError")

(***************************************************************************)
(* C10: _findMatchingBoundingBoxes returns exactly the provinces whose     *)
(* bounding box contains the point, boundary-inclusive: a point on an edge *)
(* or corner of a province's box is among the candidates.                  *)
(***************************************************************************)
C10_PrefilterBoundaryInclusive ==
    ValidCall =>
        \A i \in 1..NPoints :
            LET candidates == _findMatchingBoundingBoxes(Lats[i], Lons[i], Catalog)
            IN  {candidates[m][1] : m \in DOMAIN candidates}
                    = {Catalog[k][1] :
                         k \in {c \in 1..Len(Catalog) :
                                  \/ Inside(QueryPoint(i), Catalog[c][2].provBB)
                                  \/ OnEdge(QueryPoint(i), Catalog[c][2].provBB)}}

(***************************************************************************)
(* C11: the bounding-box prefilter has no false negatives: every province  *)
(* with a polygon for which the exact containment test is true at the      *)
(* query point is among the candidates of _findMatchingBoundingBoxes, so   *)
(* the exact test over the candidates finds what it finds over the whole   *)
(* catalog.                                                                *)
(***************************************************************************)
C11_PrefilterNoFalseNegatives ==
    (Done /\ WellFormed) =>
        \A i \in 1..NPoints :
            LET candidates == _findMatchingBoundingBoxes(Lats[i], Lons[i], Catalog)
                scan == _findMatchingProvinceFine(Lats[i], Lons[i], Catalog)
            IN  /\ \A m \in DOMAIN scan :
                      \E c \in DOMAIN candidates : candidates[c] = scan[m]
                /\ _findMatchingProvinceFine(Lats[i], Lons[i], candidates) = scan

\* The linear strategy returned the one province that a scan of the whole
\* catalog finds for a point.
C11_Witness ==
    /\ ReturnedOK /\ WellFormed /\ ~UsesTree
    /\ \E i \in 1..NPoints :
          /\ Len(_findMatchingProvinceFine(Lats[i], Lons[i], Catalog)) = 1
          /\ Entry(i) =
                Some(_findMatchingProvinceFine(Lats[i], Lons[i], Catalog)[1][2])

(***************************************************************************)
(* C12: a call whose latitude and longitude are lists of different lengths *)
(* is rejected with an error and returns no results, under the linear and  *)
(* the indexed strategy alike.                                             *)
(***************************************************************************)
C12_MismatchedLengthsRejected ==
    (Done /\ BothLists /\ Len(latitude.value) # Len(longitude.value)) =>
        Outcome.status = "raised"

(***************************************************************************)
(* C13: a call that requests the indexed strategy without a usable built   *)
(* index (the flag True with no pre-built tree, or a pre-built tree        *)
(* without its polygons_fids list) is rejected with an error.              *)
(***************************************************************************)
C13_IndexedWithoutIndexRejected ==
    (Done /\ UsesTree
          /\ (call[1].provinces_tree.type = "bool" \/ call[1].polygons_fids = None)) =>
        Outcome.status = "raised"

(***************************************************************************)
(* C13, as amended: a pre-built tree (holding a geometry) passed without   *)
(* its polygons_fids list is rejected with an AssertionError whatever the  *)
(* coordinates are; the flag True with no pre-built tree is not rejected:  *)
(* well-formed coordinates never meet an AssertionError then.              *)
(***************************************************************************)
C13_TreeWithoutFidsRejected ==
    Done =>
        /\ (/\ call[1].provinces_tree.type = "STRtree"
            /\ Len(call[1].provinces_tree.value.geometries) > 0
            /\ call[1].polygons_fids = None) =>
               /\ Outcome.status = "raised"
               /\ Outcome.error.exc = "AssertionError"
        /\ (call[1].provinces_tree = BoolArg(TRUE) /\ WellFormed) =>
               ~(Outcome.status = "raised" /\ Outcome.error.exc = "AssertionError")

\* A pre-built tree without its fids met coordinates that are well formed
\* and was rejected.
C13_Witness ==
    /\ Done /\ WellFormed /\ NPoints > 0
    /\ call[1].provinces_tree.type = "STRtree"
    /\ call[1].polygons_fids = None
    /\ Outcome.status = "raised"
    /\ Outcome.error.exc = "AssertionError"

(***************************************************************************)
(* C14: after provinces_make_tree(provinces), polygons_fids has one entry  *)
(* per polygon of the catalog, and the entry at index position i is the    *)
(* identifier of the province whose polygon list holds the polygon stored  *)
(* at tree position i; the indexed strategy maps a hit at position i to    *)
(* provinces[polygons_fids[i]] and to no other province.                   *)
(***************************************************************************)
RECURSIVE PolygonsBefore(_, _)
\* The number of polygons of the provinces that precede province k.
PolygonsBefore(catalog, k) ==
    IF k = 1 THEN 0
    ELSE PolygonsBefore(catalog, k - 1) + Len(catalog[k - 1][2].provGeoms)

\* The tree positions whose polygon covers the query point of pair i.
Hits(i) ==
    {j \in 1..Len(provinces_tree[1].geometries) :
        CoveredBy(QueryPoint(i), provinces_tree[1].geometries[j])}

C14_FidsParallelToTree ==
    (provinces_tree # None) =>
        LET catalog == provinces[1]
            geometries == provinces_tree[1].geometries
            fids == polygons_fids[1]
        IN  /\ Len(fids) = PolygonsBefore(catalog, Len(catalog) + 1)
            /\ Len(geometries) = Len(fids)
            /\ \A k \in 1..Len(catalog) :
                 \A g \in 1..Len(catalog[k][2].provGeoms) :
                   LET i == PolygonsBefore(catalog, k) + g
                   IN  /\ fids[i] = catalog[k][1]
                       /\ geometries[i] = catalog[k][2].provGeoms[g]
            /\ (/\ ReturnedOK /\ WellFormed
                /\ call[1].provinces_tree.type = "STRtree"
                /\ call[1].polygons_fids # None) =>
                   \A i \in 1..NPoints : \A j \in Hits(i) :
                       Hits(i) = {j} =>
                           /\ Entry(i) = Some(DictGet(catalog, fids[j]))
                           /\ \E g \in 1..Len(Entry(i)[1].provGeoms) :
                                 Entry(i)[1].provGeoms[g] = geometries[j]

\* The indexed strategy resolved a hit at a tree position that is not the
\* position of its province in the catalog.
C14_Witness ==
    /\ provinces_tree # None /\ ReturnedOK /\ WellFormed
    /\ call[1].provinces_tree.type = "STRtree"
    /\ call[1].polygons_fids # None
    /\ \E i \in 1..NPoints : \E j \in Hits(i) :
          /\ Hits(i) = {j}
          /\ j > Len(provinces[1])
          /\ Entry(i) = Some(DictGet(provinces[1], polygons_fids[1][j]))

(***************************************************************************)
(* C17: every non-None result is the province record stored in the catalog *)
(* under the matched identifier: it is the record of a province with a     *)
(* polygon that covers the query point, and it exposes the code            *)
(* (provCode), the name (provName) and the polygon list (provGeoms) of     *)
(* that province as the geometry definition gives them.                    *)
(***************************************************************************)
C17_ResultIsCatalogRecord ==
    (ReturnedOK /\ WellFormed) =>
        \A i \in 1..NPoints :
            Entry(i) # None =>
                \E k \in 1..Len(Catalog) :
                    /\ Entry(i) = Some(Catalog[k][2])
                    /\ Catalog[k][1] = longhurst_xml[k].fid
                    /\ {"provCode", "provName", "provGeoms"} \subseteq DOMAIN Entry(i)[1]
                    /\ Entry(i)[1].provCode = longhurst_xml[k].provcode
                    /\ Entry(i)[1].provName = longhurst_xml[k].provdescr
                    /\ Len(Entry(i)[1].provGeoms) = Len(longhurst_xml[k].the_geom)
                    /\ \E g \in 1..Len(Entry(i)[1].provGeoms) :
                          CoveredBy(QueryPoint(i), Entry(i)[1].provGeoms[g])

\* The indexed strategy returned the record of the island province for a
\* single pair.
C17_Witness ==
    /\ ReturnedOK /\ BothFloats /\ UsesTree
    /\ Outcome.regions # None
    /\ Outcome.regions[1].provCode = "ISLE"
    /\ Outcome.regions[1].provName = "Province Isle"

(***************************************************************************)
(* C18: every province of a catalog returned by parseLonghurstXML has at   *)
(* least one polygon in its polygon list, for any document the parser      *)
(* accepts.                                                                *)
(***************************************************************************)
C18_ProvinceHasPolygon ==
    provinces # None =>
        \A k \in 1..Len(provinces[1]) : Len(provinces[1][k][2].provGeoms) >= 1

(***************************************************************************)
(* C19: if a node of the definition lacks a required field (identifier,    *)
(* code, name, bounding box, the geometry or an outer ring),               *)
(* parseLonghurstXML fails with an error and returns no catalog: no        *)
(* catalog of the earlier provinces, and none with a province whose        *)
(* identifier, code or name is absent.                                     *)
(***************************************************************************)
\* The node has its identifier, code, name, box and geometry with outer rings.
RequiredFieldsPresent(node) ==
    /\ \A f \in {"fid", "provcode", "provdescr", "boundedBy", "the_geom"} :
          Has(node, f)
    /\ \A k \in 1..Len(node.the_geom) : Has(node.the_geom[k], "outerBoundaryIs")

C19_MissingFieldFailsWholeBuild ==
    /\ provinces # None =>
          /\ \A i \in 1..Len(longhurst_xml) : RequiredFieldsPresent(longhurst_xml[i])
          /\ \A k \in 1..Len(provinces[1]) : provinces[1][k][1] # NoneFid
    /\ (\E i \in 1..Len(longhurst_xml) : ~RequiredFieldsPresent(longhurst_xml[i])) =>
          (result # None => (RaisedError /\ provinces = None))

(***************************************************************************)
(* Calls side by side: vocabulary.                                         *)
(***************************************************************************)

QueryDone(q) == queries[q].pc = "done"
QueryOutcome(q) == queries[q].outcome[1]

\* The catalog, the tree and the list of fids as they were built.
BuiltCatalog == parseLonghurstXML(longhurst_xml)
BuiltTree == provinces_make_tree(BuiltCatalog)[1]
BuiltFids == provinces_make_tree(BuiltCatalog)[2]

\* What call q gives when it runs alone over the catalog and index as built.
Alone(q) ==
    find_region(queries[q].latitude, queries[q].longitude, Some(BuiltCatalog),
                IF queries[q].strategy = "tree" THEN TreeArg(BuiltTree)
                ELSE BoolArg(queries[q].strategy = "flag"),
                IF queries[q].strategy = "tree" THEN Some(BuiltFids) ELSE None,
                longhurst_xml, query_order[1], FALSE)

SameCall(p, q) ==
    /\ queries[p].latitude = queries[q].latitude
    /\ queries[p].longitude = queries[q].longitude
    /\ queries[p].strategy = queries[q].strategy

C20_ConcurrentCallsIndependent ==
    queries # <<>> =>
        \A q \in 1..MaxQueries :
            QueryDone(q) =>
                /\ QueryOutcome(q) = Alone(q)
                /\ queries[q].image # None => queries[q].image = Some({q})

(***************************************************************************)
(* C21: the command-line script exits non-zero when its input is malformed *)
(* or find_region raises the ambiguity error and exits zero otherwise, and *)
(* on a zero exit the console holds the matched province (its code and     *)
(* name) or the message that no province matched, with and without -v.     *)
(***************************************************************************)
Exited == exit_code # None
Malformed == ParsedLatitude = None \/ ParsedLongitude = None

\* The console reports the outcome of the query.
ReportsOutcome ==
    \E k \in 1..Len(stderr) :
        \/ /\ Outcome.regions # None
           /\ stderr[k].msg = "Found region"
           /\ stderr[k].region = Outcome.regions
        \/ /\ Outcome.regions = None
           /\ stderr[k].msg = "No province found matching"

C21_ExitStatusAndReport ==
    Exited =>
        /\ exit_code[1] # 0 <=> (Malformed \/ RaisedError)
        /\ exit_code[1] = 0 => ReportsOutcome

(***************************************************************************)
(* C22: the zero/one/many decision counts provinces, not polygons, under   *)
(* both strategies: a point that lies inside polygons of exactly one       *)
(* province yields that province however many of its polygons hold the     *)
(* point, and a call raises only when some point of it is covered by       *)
(* polygons of two or more distinct provinces.                             *)
(***************************************************************************)
\* The provinces (positions in the catalog) with a polygon covering pair i.
CoveringOwners(i) == {kp[1] : kp \in Covering(QueryPoint(i))}

\* Pair i lies inside every polygon that covers it, and they are all polygons
\* of province k.
InsideOnly(i, k) ==
    /\ CoveringOwners(i) = {k}
    /\ \A kp \in Covering(QueryPoint(i)) : Inside(QueryPoint(i), kp[2])

C22_DecisionCountsProvinces ==
    (ValidCall /\ NPoints > 0) =>
        /\ \A k \in 1..Len(Catalog) :
              /\ (BothFloats /\ InsideOnly(1, k)) => ReturnedOK
              /\ ReturnedOK =>
                    \A i \in 1..NPoints :
                        InsideOnly(i, k) => Entry(i) = Some(Catalog[k][2])
        /\ RaisedError =>
              \E i \in 1..NPoints : Cardinality(CoveringOwners(i)) >= 2

(***************************************************************************)
(* C23: the parseLonghurstXML of every package builds, for each polygon of *)
(* the definition, a polygon whose holes are the inner boundaries of that  *)
(* polygon, all of them and in order, so that a point inside an inner      *)
(* boundary of a province's only polygon is not matched to the province    *)
(* although the shell contains it.                                         *)
(***************************************************************************)
\* The query point lies strictly inside inner boundary h of polygon k of node i.
InHole(i, k, h) ==
    InsideRing(Point(latitude.value, longitude.value),
               _parsePolygonCoordinates(longhurst_xml[i].the_geom[k].innerBoundaryIs[h]))

C23_HolesOfEveryVariant ==
    provinces # None =>
        \A i \in 1..Len(longhurst_xml) :
            /\ \A k \in 1..Len(longhurst_xml[i].the_geom) :
                  provinces[1][i][2].provGeoms[k].holes =
                      [h \in 1..Len(longhurst_xml[i].the_geom[k].innerBoundaryIs) |->
                          _parsePolygonCoordinates(
                              longhurst_xml[i].the_geom[k].innerBoundaryIs[h])]
            /\ (/\ result # None
                /\ \A k \in 1..Len(longhurst_xml[i].the_geom) :
                      \E h \in 1..Len(longhurst_xml[i].the_geom[k].innerBoundaryIs) :
                          InHole(i, k, h))
                   => ~\E m \in 1..Len(result[1]) :
                          result[1][m][1] = NodeFid(longhurst_xml[i])

=============================================================================
